---- MODULE Spec2Model ----
(***************************************************************************)
(* Model of the arrest-record map server (website/app.js) and of its map   *)
(* client (the browser script).                                            *)
(*                                                                         *)
(* Text is modelled as a sequence of one-character strings, so that        *)
(* toLowerCase, trim, includes, split and parseFloat are computed and not  *)
(* assumed.  Coordinates are integers in units of 1e-5 degree, so that     *)
(* toFixed(4) really rounds.  A JavaScript exception is a value            *)
(* (threw = TRUE), never a TLC error.                                      *)
(***************************************************************************)
EXTENDS Integers, Sequences, FiniteSets, TLC

VARIABLES
    geocodeFile,    \* ../geocode_locations.txt: readable?, its matching lines
    csvFile,        \* ../transformed_df.csv: readable?, its rows
    pc,             \* server process: "init", "serving" or "crashed"
    cachedData,     \* app.js:199
    processCalls,   \* history: number of processData invocations
    coordsLog,      \* history: per record, how its coordinates were resolved
    lastError,      \* history: the exception that ended the last processData
    served,         \* history: number of requests handled
    lastResponse,   \* history: the last HTTP response sent
    currentFilter,  \* client: part_000:21
    allLocations,   \* client: part_000:20
    markers,        \* client: the marker layer, part_000:10
    resultCount,    \* client: text of #result-count
    fetches,        \* client: loadLocations calls in flight
    started,        \* client: number of loadLocations calls started
    errorLog,       \* client: number of console.error calls
    loaded          \* client: DOMContentLoaded has fired

vars == <<geocodeFile, csvFile, pc, cachedData, processCalls, coordsLog,
          lastError, served, lastResponse, currentFilter, allLocations,
          markers, resultCount, fetches, started, errorLog, loaded>>

serverVars == <<geocodeFile, csvFile, pc, cachedData, processCalls, coordsLog,
                lastError, served, lastResponse>>

clientVars == <<currentFilter, allLocations, markers, resultCount, fetches,
                started, errorLog, loaded>>

(***************************************************************************)
(* Bounds                                                                  *)
(***************************************************************************)
MaxGeo == 2        \* matching lines in the geocode file
MaxRecords == 2    \* rows in the records file
MaxRequests == 2   \* HTTP requests handled in one behaviour
MaxFetches == 3    \* loadLocations calls started by the client

(***************************************************************************)
(* Text                                                                    *)
(***************************************************************************)
NULL == [tag |-> "null"]

Range(s) == { s[i] : i \in 1..Len(s) }

\* String.prototype.toLowerCase, on the letters the inputs use
ToLowerChar(c) ==
    CASE c = "A" -> "a"
      [] c = "B" -> "b"
      [] c = "T" -> "t"
      [] OTHER -> c

ToLower(s) == [i \in 1..Len(s) |-> ToLowerChar(s[i])]

RECURSIVE TrimLeft(_)
TrimLeft(s) ==
    IF s # <<>> /\ Head(s) = " " THEN TrimLeft(Tail(s)) ELSE s

RECURSIVE TrimRight(_)
TrimRight(s) ==
    IF s # <<>> /\ s[Len(s)] = " " THEN TrimRight(SubSeq(s, 1, Len(s) - 1)) ELSE s

\* String.prototype.trim
Trim(s) == TrimRight(TrimLeft(s))

\* hay.includes(needle)
Includes(hay, needle) ==
    \E i \in 0..(Len(hay) - Len(needle)) :
        SubSeq(hay, i + 1, i + Len(needle)) = needle

StartsWith(s, p) == Len(p) <= Len(s) /\ SubSeq(s, 1, Len(p)) = p

\* s.replace(/[\[\]']/g, '')
StripBrackets(s) == SelectSeq(s, LAMBDA c : c \notin {"[", "]", "'"})

\* s.split(','): the pieces between commas, empty pieces kept
RECURSIVE SplitComma(_, _)
SplitComma(s, cur) ==
    IF s = <<>> THEN <<cur>>
    ELSE IF Head(s) = "," THEN <<cur>> \o SplitComma(Tail(s), <<>>)
    ELSE SplitComma(Tail(s), Append(cur, Head(s)))

\* replace(...).split(',').map(c => c.trim()).filter(c => c), app.js:88
TrimAll(pieces) == [i \in 1..Len(pieces) |-> Trim(pieces[i])]

ParseList(field) ==
    SelectSeq(TrimAll(SplitComma(StripBrackets(field), <<>>)),
              LAMBDA p : p # <<>>)

\* record.CRIME_CATEGORIES ? parse : [], app.js:85-92 (an empty string is falsy)
ParseCategories(field) == IF field = <<>> THEN <<>> ELSE ParseList(field)

Digits == {"0", "1", "2", "3", "4", "5", "6", "7", "8", "9"}

DigitVal(c) ==
    CASE c = "0" -> 0 [] c = "1" -> 1 [] c = "2" -> 2 [] c = "3" -> 3
      [] c = "4" -> 4 [] c = "5" -> 5 [] c = "6" -> 6 [] c = "7" -> 7
      [] c = "8" -> 8 [] c = "9" -> 9

RECURSIVE DigitPrefix(_, _)
\* the value of the longest prefix of decimal digits of s, after acc
DigitPrefix(s, acc) ==
    IF s # <<>> /\ Head(s) \in Digits
    THEN DigitPrefix(Tail(s), 10 * acc + DigitVal(Head(s)))
    ELSE acc

StrInfinity == <<"I", "n", "f", "i", "n", "i", "t", "y">>

\* parseFloat: leading white space skipped, then "Infinity" or the longest
\* numeric prefix, NaN when there is none (also for undefined and '').
\* Signs, fractions and exponents are not among the inputs of the model.
StrDecimalLiteral(s) ==
    IF StartsWith(s, StrInfinity) THEN [kind |-> "inf", val |-> 0]
    ELSE IF s # <<>> /\ Head(s) \in Digits
         THEN [kind |-> "num", val |-> DigitPrefix(s, 0)]
         ELSE [kind |-> "nan", val |-> 0]

ParseFloat(field) == StrDecimalLiteral(TrimLeft(field))

\* isNaN
IsNaN(x) == x.kind = "nan"

(***************************************************************************)
(* Numbers                                                                 *)
(***************************************************************************)
Abs(n) == IF n < 0 THEN -n ELSE n

\* Number.prototype.toFixed(4) of n * 1e-5: the sign is taken from the
\* unrounded number ("if x < 0, let s be '-' and x = -x"), then the magnitude
\* is rounded to the nearest 1e-4, so -0.00001 gives "-0.0000".
ToFixed4(n) == [neg |-> n < 0, mag |-> (Abs(n) + 5) \div 10]

\* `${coords.lat.toFixed(4)},${coords.lng.toFixed(4)}`, app.js:116
LocationKey(lat, lng) == <<ToFixed4(lat), ToFixed4(lng)>>

(***************************************************************************)
(* Geocode table, app.js:17-34                                             *)
(***************************************************************************)
\* locations[key] = {lat, lng}: a plain object keeps its own keys in
\* insertion order; assigning to an existing key changes the value in place.
SetEntry(locs, key, lat, lng) ==
    IF \E i \in 1..Len(locs) : locs[i].key = key
    THEN [i \in 1..Len(locs) |->
            IF locs[i].key = key THEN [key |-> key, lat |-> lat, lng |-> lng]
            ELSE locs[i]]
    ELSE Append(locs, [key |-> key, lat |-> lat, lng |-> lng])

RECURSIVE BuildLocations(_, _)
\* the while loop over the regex matches, app.js:26-31
BuildLocations(lines, locs) ==
    IF lines = <<>> THEN locs
    ELSE BuildLocations(Tail(lines),
            SetEntry(locs, ToLower(Trim(Head(lines).name)),
                     Head(lines).lat, Head(lines).lng))

\* parseGeocodeLocations: readFileSync throws when the file cannot be read
parseGeocodeLocations(file) ==
    IF ~file.readable THEN [threw |-> TRUE, locations |-> <<>>]
    ELSE [threw |-> FALSE, locations |-> BuildLocations(file.lines, <<>>)]

\* loadCSVData with the read failure swallowed: no rows instead of an exception
loadCSVDataSwallow(file) ==
    [threw |-> FALSE, records |-> IF file.readable THEN file.lines ELSE <<>>]

\* loadCSVData: readFileSync throws when the file cannot be read
loadCSVData(file) ==
    IF ~file.readable THEN [threw |-> TRUE, records |-> <<>>]
    ELSE [threw |-> FALSE, records |-> file.lines]

(***************************************************************************)
(* Coordinate resolution, app.js:65-82                                     *)
(***************************************************************************)
StrConstructor == <<"c", "o", "n", "s", "t", "r", "u", "c", "t", "o", "r">>
StrProto == <<"_", "_", "p", "r", "o", "t", "o", "_", "_">>

\* The properties every plain object inherits from Object.prototype whose
\* names are all lower case (the others, such as toString, never equal a
\* lowercased text).
InheritedKeys == {StrConstructor, StrProto}

DefaultLat == 3982830
DefaultLng == -9857950

\* locations[arrestedLower], app.js:69: an own entry, else an inherited
\* property (a function or Object.prototype: truthy, with no lat and lng),
\* else undefined.
Lookup(locs, key) ==
    IF \E i \in 1..Len(locs) : locs[i].key = key
    THEN LET i == CHOOSE j \in 1..Len(locs) : locs[j].key = key
         IN  [kind |-> "exact", lat |-> locs[i].lat, lng |-> locs[i].lng]
    ELSE IF key \in InheritedKeys
         THEN [kind |-> "inherited", lat |-> 0, lng |-> 0]
         ELSE [kind |-> "undefined", lat |-> 0, lng |-> 0]

\* arrestedLower.includes(key) || key.includes(arrestedLower), app.js:73
PartialMatch(arrestedLower, key) ==
    Includes(arrestedLower, key) \/ Includes(key, arrestedLower)

\* the for loop over Object.entries(locations), app.js:72-77
PartialScan(locs, arrestedLower) ==
    IF \E i \in 1..Len(locs) : PartialMatch(arrestedLower, locs[i].key)
    THEN LET i == CHOOSE j \in 1..Len(locs) :
                    /\ PartialMatch(arrestedLower, locs[j].key)
                    /\ \A k \in 1..(j - 1) : ~PartialMatch(arrestedLower, locs[k].key)
         IN  [kind |-> "partial", lat |-> locs[i].lat, lng |-> locs[i].lng]
    ELSE [kind |-> "undefined", lat |-> 0, lng |-> 0]

\* app.js:69-82; kind "inherited" stands for a value without lat and lng
OrDefault(coords) ==
    IF coords.kind = "undefined"
    THEN [kind |-> "default", lat |-> DefaultLat, lng |-> DefaultLng]
    ELSE coords

OrPartial(exact, locs, arrestedLower) ==
    IF exact.kind = "undefined" THEN PartialScan(locs, arrestedLower) ELSE exact

ResolveCoords(locs, arrestedLower) ==
    OrDefault(OrPartial(Lookup(locs, arrestedLower), locs, arrestedLower))

(***************************************************************************)
(* processData, app.js:48-196                                              *)
(***************************************************************************)
\* AddPerson without the test for an existing group: the group object is
\* made anew for every record
AddPersonNoGuard(groups, key, coords, arrested, person) ==
    LET fresh == [key |-> key, lat |-> coords.lat, lng |-> coords.lng,
                  location |-> arrested, people |-> <<person>>]
    IN  IF \E i \in 1..Len(groups) : groups[i].key = key
        THEN [i \in 1..Len(groups) |->
                IF groups[i].key = key THEN fresh ELSE groups[i]]
        ELSE Append(groups, fresh)

\* if (!locationGroups[locationKey]) create it; then push the person,
\* app.js:117-138.  Groups are kept in creation order (Object.values).
AddPerson(groups, key, coords, arrested, person) ==
    LET created ==
            IF \E i \in 1..Len(groups) : groups[i].key = key THEN groups
            ELSE Append(groups, [key |-> key, lat |-> coords.lat,
                                 lng |-> coords.lng, location |-> arrested,
                                 people |-> <<>>])
    IN  [i \in 1..Len(created) |->
            IF created[i].key = key
            THEN [created[i] EXCEPT !.people = Append(@, person)]
            ELSE created[i]]

\* totalAge += age, with IEEE infinity
AddAge(total, age) ==
    IF age.kind = "inf" THEN [inf |-> TRUE, sum |-> total.sum]
    ELSE [inf |-> total.inf, sum |-> total.sum + age.val]

\* one pass of records.forEach, app.js:64-165.  The tallies by gender,
\* country, gang and race are not modelled.
LogEntry(arrested, coords) ==
    [arrested |-> arrested, kind |-> coords.kind,
     lat |-> coords.lat, lng |-> coords.lng]

\* the body of the callback once coords, categories and age are computed
Accumulate(acc, record, coords, categories, age) ==
    IF coords.kind = "inherited"
    THEN \* coords.lat is undefined: coords.lat.toFixed throws, app.js:116
         [acc EXCEPT !.threw = TRUE,
                     !.log = Append(@, LogEntry(record.ARRESTED, coords))]
    ELSE [threw |-> FALSE,
          groups |-> AddPerson(acc.groups, LocationKey(coords.lat, coords.lng),
                               coords, record.ARRESTED,
                               [id |-> record.ID, categories |-> categories]),
          allCategories |-> acc.allCategories \cup Range(categories),
          totalWithAge |-> IF IsNaN(age) THEN acc.totalWithAge
                           ELSE acc.totalWithAge + 1,
          totalAge |-> IF IsNaN(age) THEN acc.totalAge
                       ELSE AddAge(acc.totalAge, age),
          log |-> Append(acc.log, LogEntry(record.ARRESTED, coords))]

ProcessRecord(acc, locs, record) ==
    Accumulate(acc, record,
               ResolveCoords(locs, ToLower(record.ARRESTED)),
               ParseCategories(record.CRIME_CATEGORIES),
               ParseFloat(record.DEEPFACE_age))

RECURSIVE ForEach(_, _, _)
\* records.forEach: an exception ends the loop
ForEach(acc, locs, records) ==
    IF records = <<>> \/ acc.threw THEN acc
    ELSE ForEach(ProcessRecord(acc, locs, Head(records)), locs, Tail(records))

EmptyAcc ==
    [threw |-> FALSE, groups |-> <<>>, allCategories |-> {},
     totalWithAge |-> 0, totalAge |-> [inf |-> FALSE, sum |-> 0], log |-> <<>>]

\* (totalAge / totalWithAge).toFixed(1), in tenths.  A quotient half way
\* between two tenths has a denominator that is a multiple of 4, is exact in
\* binary, and toFixed then takes the larger candidate.
ToFixed1(total, count) ==
    IF total.inf THEN [kind |-> "Infinity", tenths |-> 0]
    ELSE [kind |-> "num", tenths |-> (20 * total.sum + count) \div (2 * count)]

\* totalWithAge > 0 ? (totalAge / totalWithAge).toFixed(1) : 'N/A', app.js:189
AvgAge(total, count) ==
    IF count > 0 THEN ToFixed1(total, count) ELSE [kind |-> "N/A", tenths |-> 0]

\* Object.values(locationGroups), app.js:183
ObjectValues(groups) ==
    [i \in 1..Len(groups) |->
        [lat |-> groups[i].lat, lng |-> groups[i].lng,
         location |-> groups[i].location, people |-> groups[i].people]]

\* processData: the value returned, or the exception thrown.  categories is
\* kept as the set of its elements (its sort order is not modelled).
\* the return statement, app.js:182-195
Result(acc, records) ==
    IF acc.threw
    THEN [threw |-> TRUE, error |-> "TypeError", data |-> NULL, log |-> acc.log]
    ELSE [threw |-> FALSE, error |-> "none",
          data |-> [locations |-> ObjectValues(acc.groups),
                    categories |-> acc.allCategories,
                    stats |-> [totalRecords |-> Len(records),
                               avgAge |-> AvgAge(acc.totalAge, acc.totalWithAge)]],
          log |-> acc.log]

Loaded(g, c) ==
    IF g.threw \/ c.threw
    THEN [threw |-> TRUE, error |-> "ENOENT", data |-> NULL, log |-> <<>>]
    ELSE Result(ForEach(EmptyAcc, g.locations, c.records), c.records)

processData(geo, csv) == Loaded(parseGeocodeLocations(geo), loadCSVData(csv))

\* getData, app.js:201-206: what it returns or throws, the holder afterwards,
\* and whether processData ran
Computed(cache, r) ==
    [threw |-> r.threw, error |-> r.error, data |-> r.data,
     cache |-> IF r.threw THEN cache ELSE r.data, ran |-> 1, log |-> r.log]

\* getData without the test of the holder: every call computes again
getDataAlways(cache, geo, csv) == Computed(cache, processData(geo, csv))

getData(cache, geo, csv) ==
    IF cache = NULL
    THEN Computed(cache, processData(geo, csv))
    ELSE [threw |-> FALSE, error |-> "none", data |-> cache, cache |-> cache,
          ran |-> 0, log |-> <<>>]

(***************************************************************************)
(* Routes, app.js:209-237                                                  *)
(***************************************************************************)
StrAll == <<"a", "l", "l">>

\* a match on part of a category name instead of the whole name
CategoryMatchSubstring(categories, category) ==
    \E i \in 1..Len(categories) : Includes(categories[i], category)

\* p.categories.includes(category)
CategoryMatch(categories, category) == category \in Range(categories)

\* data.locations.map(loc => ({...loc, people: loc.people.filter(...)}))
\*     .filter(loc => loc.people.length > 0), app.js:225-228
FilterLocations(locations, category) ==
    LET mapped == [i \in 1..Len(locations) |->
                     [locations[i] EXCEPT !.people =
                        SelectSeq(@, LAMBDA p : CategoryMatch(p.categories, category))]]
    IN  SelectSeq(mapped, LAMBDA loc : Len(loc.people) > 0)

\* the body of GET /api/locations, app.js:220-231; query.present is FALSE
\* when the URL carries no category (req.query.category is undefined)
LocationsBody(data, query) ==
    IF query.present /\ query.value # <<>> /\ query.value # StrAll
    THEN FilterLocations(data.locations, query.value)
    ELSE data.locations

NoQuery == [present |-> FALSE, value |-> <<>>]
NoResponse == [route |-> "none"]

\* A route whose handler throws is answered by the framework's error page.
Respond(route, query, d, body) ==
    IF d.threw
    THEN [route |-> route, query |-> query, status |-> 500, body |-> NULL]
    ELSE [route |-> route, query |-> query, status |-> 200, body |-> body]

(***************************************************************************)
(* Inputs                                                                  *)
(***************************************************************************)
SeqsUpTo(S, n) == UNION { [1..k -> S] : k \in 0..n }

\* matches of the geocode regex: match[1] and the two parsed numbers
GeoLines ==
    { [name |-> <<"a">>, lat |-> 1, lng |-> 4],
      [name |-> <<"a", "b">>, lat |-> -1, lng |-> 4],
      [name |-> <<"A", " ">>, lat |-> 12, lng |-> 4],
      [name |-> <<"b">>, lat |-> 3982832, lng |-> -9857951] }

ArrestedTexts ==
    { <<>>, <<"a">>, <<"A", "B">>, <<"b">>, <<"x">>, StrConstructor }

CategoryFields ==
    { <<>>,
      <<"[", "'", "T", "'", "]">>,
      <<"[", "'", "T", "h", "'", ",", " ", "'", "A", "'", "]">>,
      <<"[", "A", ",", ",", " ", "T", " ", "]">> }

AgeFields ==
    { <<>>, <<"a", "b">>, StrInfinity, <<"3", "0">>, <<"2", "5">> }

Queries ==
    { NoQuery } \cup
    { [present |-> TRUE, value |-> v] :
        v \in { StrAll, <<>>, <<"T">>, <<"A">>, <<"z">> } }

Unreadable == [readable |-> FALSE, lines |-> <<>>]
File(lines) == [readable |-> TRUE, lines |-> lines]

\* rows of the records file; the ID column numbers the rows
Rows(fields) ==
    [i \in 1..Len(fields) |->
        [ID |-> i, ARRESTED |-> fields[i].ARRESTED,
         CRIME_CATEGORIES |-> fields[i].CRIME_CATEGORIES,
         DEEPFACE_age |-> fields[i].DEEPFACE_age]]

FixedGeo ==
    File(<< [name |-> <<"a">>, lat |-> 1, lng |-> 4],
            [name |-> <<"b">>, lat |-> 3982832, lng |-> -9857951] >>)

\* the files differ in the geocode table and in the arrest locations
InitGeo ==
    /\ geocodeFile \in { Unreadable } \cup
                       { File(l) : l \in SeqsUpTo(GeoLines, MaxGeo) }
    /\ csvFile \in { Unreadable } \cup
          { File(Rows(f)) : f \in SeqsUpTo(
                [ARRESTED : ArrestedTexts,
                 CRIME_CATEGORIES : { <<"[", "'", "T", "'", "]">> },
                 DEEPFACE_age : { <<"3", "0">> }], MaxRecords) }

\* the rows differ in their categories
InitFilter ==
    /\ geocodeFile = FixedGeo
    /\ csvFile \in
          { File(Rows(f)) : f \in SeqsUpTo(
                [ARRESTED : { <<"a">>, <<"b">> },
                 CRIME_CATEGORIES : CategoryFields,
                 DEEPFACE_age : { <<>> }], MaxRecords) }

\* the rows differ in their age field
InitAge ==
    /\ geocodeFile = FixedGeo
    /\ csvFile \in
          { File(Rows(f)) : f \in SeqsUpTo(
                [ARRESTED : { <<"a">> },
                 CRIME_CATEGORIES : { <<>> },
                 DEEPFACE_age : AgeFields], MaxRecords) }

InitServer ==
    /\ pc = "init"
    /\ cachedData = NULL
    /\ processCalls = 0
    /\ coordsLog = <<>>
    /\ lastError = "none"
    /\ served = 0
    /\ lastResponse = NoResponse

InitClient ==
    /\ currentFilter = StrAll
    /\ allLocations = <<>>
    /\ markers = <<>>
    /\ resultCount = [people |-> 0, locations |-> 0, shown |-> FALSE]
    /\ fetches = {}
    /\ started = 0
    /\ errorLog = 0
    /\ loaded = FALSE

Init ==
    /\ InitGeo \/ InitFilter \/ InitAge
    /\ InitServer
    /\ InitClient

(***************************************************************************)
(* Server actions                                                          *)
(***************************************************************************)
\* the effect of one getData call on the holder and on the history
Called(d) ==
    /\ cachedData' = d.cache
    /\ processCalls' = processCalls + d.ran
    /\ coordsLog' = IF d.ran = 1 THEN d.log ELSE coordsLog
    /\ lastError' = IF d.ran = 1 THEN d.error ELSE lastError

\* the callback of app.listen, app.js:239-244: it runs before any request is
\* accepted, and an exception it throws is caught by nobody and ends the
\* process
Preload(d) ==
    /\ Called(d)
    /\ pc' = IF d.threw THEN "crashed" ELSE "serving"

Listen ==
    /\ pc = "init"
    /\ Preload(getData(cachedData, geocodeFile, csvFile))
    /\ UNCHANGED <<geocodeFile, csvFile, served, lastResponse>>
    /\ UNCHANGED clientVars

\* GET /, app.js:209-216
RenderIndex(d) ==
    /\ Called(d)
    /\ lastResponse' = Respond("/", NoQuery, d,
           IF d.threw THEN NULL
           ELSE [categories |-> d.data.categories, stats |-> d.data.stats])

GetIndex ==
    /\ pc = "serving"
    /\ served < MaxRequests
    /\ RenderIndex(getData(cachedData, geocodeFile, csvFile))
    /\ served' = served + 1
    /\ UNCHANGED <<geocodeFile, csvFile, pc>>
    /\ UNCHANGED clientVars

\* the handler of GET /api/locations, app.js:218-232
SendLocations(d, query) ==
    /\ Called(d)
    /\ lastResponse' = Respond("/api/locations", query, d,
           IF d.threw THEN NULL ELSE LocationsBody(d.data, query))

HandleLocations(query) ==
    /\ SendLocations(getData(cachedData, geocodeFile, csvFile), query)
    /\ served' = served + 1
    /\ UNCHANGED <<geocodeFile, csvFile, pc>>

\* GET /api/locations from any client
GetLocations(query) ==
    /\ pc = "serving"
    /\ served < MaxRequests
    /\ HandleLocations(query)
    /\ UNCHANGED clientVars

\* GET /api/stats, app.js:234-237
SendStats(d) ==
    /\ Called(d)
    /\ lastResponse' = Respond("/api/stats", NoQuery, d,
           IF d.threw THEN NULL ELSE d.data.stats)

GetStats ==
    /\ pc = "serving"
    /\ served < MaxRequests
    /\ SendStats(getData(cachedData, geocodeFile, csvFile))
    /\ served' = served + 1
    /\ UNCHANGED <<geocodeFile, csvFile, pc>>
    /\ UNCHANGED clientVars

Next ==
    \/ Listen
    \/ GetIndex
    \/ \E q \in Queries : GetLocations(q)
    \/ GetStats

Spec == Init /\ [][Next]_vars

(***************************************************************************)
(* Map client, the browser script                                          *)
(***************************************************************************)
\* the options of #category-filter
ClientFilters == { StrAll, <<"T">>, <<"A">> }

\* the URL loadLocations builds, part_000:50-52.  encodeURIComponent and the
\* server's decoding of the query string return the text unchanged.
QueryOf(category) ==
    IF category = StrAll THEN NoQuery ELSE [present |-> TRUE, value |-> category]

\* updateMap, part_000:65-90: the layer is cleared and gets one marker per
\* location, its icon made from the number of people
UpdateMap(locations) ==
    [i \in 1..Len(locations) |->
        [lat |-> locations[i].lat, lng |-> locations[i].lng,
         count |-> Len(locations[i].people),
         popup |-> locations[i].location]]

RECURSIVE SumPeople(_)
\* allLocations.reduce((sum, loc) => sum + loc.people.length, 0)
SumPeople(locations) ==
    IF locations = <<>> THEN 0
    ELSE Len(Head(locations).people) + SumPeople(Tail(locations))

\* updateResultCount, part_000:93-97
UpdateResultCount(locations) ==
    [people |-> SumPeople(locations), locations |-> Len(locations),
     shown |-> TRUE]

\* loadLocations up to its first await, part_000:48-54
StartLoad(category) ==
    /\ started' = started + 1
    /\ fetches' = fetches \cup
          { [id |-> started + 1, category |-> category, stage |-> "fetching",
             response |-> NoResponse] }

\* the DOMContentLoaded listener, part_000:186-188: loadLocations()
DOMContentLoaded ==
    /\ pc = "serving"
    /\ ~loaded
    /\ loaded' = TRUE
    /\ StartLoad(StrAll)
    /\ UNCHANGED <<currentFilter, allLocations, markers, resultCount, errorLog>>
    /\ UNCHANGED serverVars

\* the change listener of #category-filter, part_000:191-194
ChangeFilter(c) ==
    /\ loaded
    /\ started < MaxFetches
    /\ currentFilter' = c
    /\ StartLoad(c)
    /\ UNCHANGED <<allLocations, markers, resultCount, errorLog, loaded>>
    /\ UNCHANGED serverVars

\* await fetch(url) resolves, part_000:54: the server has handled the request
FetchResolve(f) ==
    /\ f.stage = "fetching"
    /\ pc = "serving"
    /\ HandleLocations(QueryOf(f.category))
    /\ fetches' = (fetches \ {f}) \cup
          { [f EXCEPT !.stage = "reading", !.response = lastResponse'] }
    /\ UNCHANGED <<currentFilter, allLocations, markers, resultCount,
                   started, errorLog, loaded>>

\* await fetch(url) rejects: the catch block logs, part_000:59-61
FetchReject(f) ==
    /\ f.stage = "fetching"
    /\ fetches' = fetches \ {f}
    /\ errorLog' = errorLog + 1
    /\ UNCHANGED <<currentFilter, allLocations, markers, resultCount,
                   started, loaded>>
    /\ UNCHANGED serverVars

\* await response.json() resolves, part_000:55-58
JsonResolve(f) ==
    /\ f.stage = "reading"
    /\ f.response.status = 200
    /\ allLocations' = f.response.body
    /\ markers' = UpdateMap(f.response.body)
    /\ resultCount' = UpdateResultCount(f.response.body)
    /\ fetches' = fetches \ {f}
    /\ UNCHANGED <<currentFilter, started, errorLog, loaded>>
    /\ UNCHANGED serverVars

\* JsonReject with allLocations already emptied before the body is read
JsonRejectClears(f) ==
    /\ f.stage = "reading"
    /\ fetches' = fetches \ {f}
    /\ errorLog' = errorLog + 1
    /\ allLocations' = <<>>
    /\ UNCHANGED <<currentFilter, markers, resultCount, started, loaded>>
    /\ UNCHANGED serverVars

\* await response.json() rejects (an error page, or a body cut short): the
\* assignment to allLocations does not happen and the catch block logs
JsonReject(f) ==
    /\ f.stage = "reading"
    /\ fetches' = fetches \ {f}
    /\ errorLog' = errorLog + 1
    /\ UNCHANGED <<currentFilter, allLocations, markers, resultCount,
                   started, loaded>>
    /\ UNCHANGED serverVars

\* the data set the client is checked against
ClientRows ==
    Rows(<< [ARRESTED |-> <<"a">>,
             CRIME_CATEGORIES |-> <<"[", "'", "T", "'", "]">>,
             DEEPFACE_age |-> <<"3", "0">>],
            [ARRESTED |-> <<"b">>,
             CRIME_CATEGORIES |-> <<"[", "A", ",", ",", " ", "T", " ", "]">>,
             DEEPFACE_age |-> <<"2", "5">>],
            [ARRESTED |-> <<"b">>,
             CRIME_CATEGORIES |-> <<>>,
             DEEPFACE_age |-> <<>>] >>)

InitPage ==
    /\ geocodeFile = FixedGeo
    /\ csvFile = File(ClientRows)
    /\ InitServer
    /\ InitClient

ClientNext ==
    \/ Listen
    \/ DOMContentLoaded
    \/ \E c \in ClientFilters : ChangeFilter(c)
    \/ \E f \in fetches : FetchResolve(f)
    \/ \E f \in fetches : FetchReject(f)
    \/ \E f \in fetches : JsonResolve(f)
    \/ \E f \in fetches : JsonReject(f)

SpecClient == InitPage /\ [][ClientNext]_vars

(***************************************************************************)
(* Properties                                                              *)
(***************************************************************************)
Rows0 == csvFile.lines
Table == BuildLocations(geocodeFile.lines, <<>>)

\* the places <<group, position>> at which the person made from row r stands
PlacesOf(locations, r) ==
    { gk \in UNION { { <<g, k>> : k \in 1..Len(locations[g].people) } :
                     g \in 1..Len(locations) } :
        locations[gk[1]].people[gk[2]].id = r }

\* C1: every row of the records file stands in exactly one location group:
\* the people of all groups of the unfiltered result number as many as the
\* rows, which is also stats.totalRecords.
C1_EveryRecordInOneGroup ==
    cachedData # NULL =>
        /\ SumPeople(cachedData.locations) = Len(Rows0)
        /\ cachedData.stats.totalRecords = Len(Rows0)
        /\ \A r \in 1..Len(Rows0) :
              Cardinality(PlacesOf(cachedData.locations, r)) = 1

\* two rows were processed and share one group
C1_Witness ==
    /\ cachedData # NULL
    /\ Len(Rows0) = 2
    /\ Len(cachedData.locations) = 1
    /\ Len(cachedData.locations[1].people) = 2

\* the people who carry category c, as <<group, position>>
Carriers(locations, c) ==
    { gk \in UNION { { <<g, k>> : k \in 1..Len(locations[g].people) } :
                     g \in 1..Len(locations) } :
        \E n \in 1..Len(locations[gk[1]].people[gk[2]].categories) :
            locations[gk[1]].people[gk[2]].categories[n] = c }

Carries(p, c) == \E n \in 1..Len(p.categories) : p.categories[n] = c

\* the groups with a carrier of c, in order, each cut down to its carriers
Restricted(locations, c) ==
    LET kept == SelectSeq(locations,
                    LAMBDA loc : \E k \in 1..Len(loc.people) : Carries(loc.people[k], c))
    IN  [i \in 1..Len(kept) |->
            [lat |-> kept[i].lat, lng |-> kept[i].lng,
             location |-> kept[i].location,
             people |-> SelectSeq(kept[i].people, LAMBDA p : Carries(p, c))]]

IsLocationsResponse ==
    /\ lastResponse # NoResponse
    /\ lastResponse.route = "/api/locations"

\* C2 as stated: the full sequence when category is omitted or "all", and
\* for every other value c the groups with a carrier of c, cut down to their
\* carriers.
C2_FilterAnyOtherValue ==
    IsLocationsResponse =>
        /\ lastResponse.status = 200
        /\ IF ~lastResponse.query.present \/ lastResponse.query.value = StrAll
           THEN lastResponse.body = cachedData.locations
           ELSE lastResponse.body =
                    Restricted(cachedData.locations, lastResponse.query.value)

\* C2 amended: the full sequence when category is omitted, empty or "all";
\* for every other value c the groups with a carrier of c, in their order,
\* each cut down to its carriers in their order: the empty array when nobody
\* carries c, one group of one person when exactly one person does.
C2_FilterAmended ==
    IsLocationsResponse =>
        /\ lastResponse.status = 200
        /\ IF \/ ~lastResponse.query.present
              \/ lastResponse.query.value = <<>>
              \/ lastResponse.query.value = StrAll
           THEN lastResponse.body = cachedData.locations
           ELSE LET c == lastResponse.query.value
                    n == Cardinality(Carriers(cachedData.locations, c))
                IN  /\ lastResponse.body = Restricted(cachedData.locations, c)
                    /\ n = 0 => lastResponse.body = <<>>
                    /\ n = 1 => /\ Len(lastResponse.body) = 1
                                /\ Len(lastResponse.body[1].people) = 1
                                /\ Carries(lastResponse.body[1].people[1], c)

\* a filter that keeps one of two groups, and one of the people of that group
C2_Witness ==
    /\ IsLocationsResponse
    /\ lastResponse.query.present
    /\ lastResponse.query.value = <<"T">>
    /\ Len(cachedData.locations) = 2
    /\ Len(lastResponse.body) = 1
    /\ SumPeople(cachedData.locations) = 2

\* a coordinate rounded to 4 decimal places, in units of 1e-4 degree
Round4(n) == IF n < 0 THEN -((5 - n) \div 10) ELSE (n + 5) \div 10

RoundedPair(e) == <<Round4(e.lat), Round4(e.lng)>>

GroupOf(locations, r) ==
    CHOOSE g \in 1..Len(locations) :
        \E k \in 1..Len(locations[g].people) : locations[g].people[k].id = r

\* C3: two rows stand in the same group exactly when their coordinates round
\* to the same pair of 4-decimal numbers, and there are as many groups as
\* distinct rounded pairs.
C3_GroupIffSameRounded ==
    cachedData # NULL =>
        /\ \A i, j \in 1..Len(Rows0) :
              (GroupOf(cachedData.locations, i) = GroupOf(cachedData.locations, j))
                  <=> (RoundedPair(coordsLog[i]) = RoundedPair(coordsLog[j]))
        /\ Len(cachedData.locations) =
              Cardinality({ RoundedPair(coordsLog[i]) : i \in 1..Len(Rows0) })

\* C4: processData runs once, in the first getData call; the holder then
\* keeps the value computed from the files, and no request changes it.
C4_ComputedOnce ==
    /\ [](pc = "serving" =>
            /\ processCalls = 1
            /\ cachedData = processData(geocodeFile, csvFile).data)
    /\ [][/\ cachedData # NULL => cachedData' = cachedData
          /\ pc = "serving" => processCalls' = processCalls]_vars

\* a filtered request was answered with less than the stored locations
C4_Witness ==
    /\ served = 2
    /\ processCalls = 1
    /\ IsLocationsResponse
    /\ lastResponse.query.present
    /\ lastResponse.body # cachedData.locations
    /\ lastResponse.body # <<>>

NoEntryMatches(text) ==
    \A i \in 1..Len(Table) :
        /\ Table[i].key # text
        /\ ~Includes(text, Table[i].key)
        /\ ~Includes(Table[i].key, text)

\* C5: whatever the arrest-location text, resolving the coordinates raises
\* no error: every row gets a numeric pair, the default pair when no geocode
\* entry matches.
C5_ResolutionNeverThrows ==
    (geocodeFile.readable /\ csvFile.readable /\ pc # "init") =>
        /\ lastError = "none"
        /\ Len(coordsLog) = Len(Rows0)
        /\ \A i \in 1..Len(coordsLog) :
              /\ coordsLog[i].kind \in {"exact", "partial", "default"}
              /\ NoEntryMatches(ToLower(coordsLog[i].arrested)) =>
                    /\ coordsLog[i].lat = DefaultLat
                    /\ coordsLog[i].lng = DefaultLng

RECURSIVE FiniteAges(_)
\* the ages of the rows whose age field parses as a finite number
FiniteAges(rows) ==
    IF rows = <<>> THEN <<>>
    ELSE (IF ParseFloat(Head(rows).DEEPFACE_age).kind = "num"
          THEN <<ParseFloat(Head(rows).DEEPFACE_age).val>> ELSE <<>>)
         \o FiniteAges(Tail(rows))

RECURSIVE Sum(_)
Sum(s) == IF s = <<>> THEN 0 ELSE Head(s) + Sum(Tail(s))

\* C6: avgAge is 'N/A' exactly when no row has an age that parses as a
\* finite number, and else the mean of exactly those ages to one decimal
\* place.
C6_AvgAgeOverFiniteAges ==
    cachedData # NULL =>
        LET ages == FiniteAges(Rows0)
            avg == cachedData.stats.avgAge
        IN  /\ (avg.kind = "N/A") <=> (ages = <<>>)
            /\ ages # <<>> =>
                  /\ avg.kind = "num"
                  /\ 2 * Abs(10 * Sum(ages) - avg.tenths * Len(ages)) <= Len(ages)

\* C7: with the geocode file or the records file unreadable the process ends
\* in the listen callback with the read error, the holder stays null and no
\* request is ever answered.
C7_MissingFileIsFatal ==
    (~geocodeFile.readable \/ ~csvFile.readable) =>
        /\ cachedData = NULL
        /\ pc \in {"init", "crashed"}
        /\ served = 0
        /\ lastResponse = NoResponse
        /\ pc = "crashed" => (lastError = "ENOENT" /\ processCalls = 1)

\* the records file alone is unreadable and the listen callback has run
C7_Witness ==
    /\ geocodeFile.readable
    /\ ~csvFile.readable
    /\ pc = "crashed"

\* C8: once no fetch is outstanding (and none has failed), the client shows
\* the response for the selected filter.
C8_ShowsCurrentFilter ==
    (loaded /\ fetches = {} /\ errorLog = 0) =>
        /\ allLocations = LocationsBody(cachedData, QueryOf(currentFilter))
        /\ markers = UpdateMap(allLocations)
        /\ resultCount = UpdateResultCount(allLocations)

\* C9: a step in which a loadLocations fetch fails logs the failure and
\* leaves allLocations, the markers and the counter as they were; it starts
\* no fetch and changes no filter.
C9_FailureLeavesUI ==
    [][errorLog' # errorLog =>
          /\ errorLog' = errorLog + 1
          /\ allLocations' = allLocations
          /\ markers' = markers
          /\ resultCount' = resultCount
          /\ currentFilter' = currentFilter
          /\ started' = started
          /\ fetches' \subseteq fetches]_vars

\* a fetch failed after an earlier one had filled the map
C9_Witness ==
    /\ errorLog > 0
    /\ fetches = {}
    /\ allLocations # <<>>
    /\ markers = UpdateMap(allLocations)
    /\ currentFilter # StrAll

\* what the stated precedence gives for a lowercased text
Precedence(text) ==
    IF \E i \in 1..Len(Table) : Table[i].key = text
    THEN LET i == CHOOSE j \in 1..Len(Table) : Table[j].key = text
         IN  <<Table[i].lat, Table[i].lng>>
    ELSE IF \E i \in 1..Len(Table) :
                Includes(text, Table[i].key) \/ Includes(Table[i].key, text)
         THEN LET M == { j \in 1..Len(Table) :
                           Includes(text, Table[j].key) \/ Includes(Table[j].key, text) }
                  i == CHOOSE j \in M : \A k \in M : j <= k
              IN  <<Table[i].lat, Table[i].lng>>
         ELSE <<DefaultLat, DefaultLng>>

\* C10: a row's coordinates are those of the entry named by its lowercased
\* arrest location, else those of the first entry in table order that is part
\* of it or contains it, else the default pair.
C10_Precedence ==
    (geocodeFile.readable /\ csvFile.readable /\ pc # "init") =>
        \A i \in 1..Len(coordsLog) :
            /\ coordsLog[i].kind # "inherited"
            /\ <<coordsLog[i].lat, coordsLog[i].lng>> =
                   Precedence(ToLower(coordsLog[i].arrested))

====
